---- MODULE Spec2Model ----
(***************************************************************************)
(* The conversation state machine of bot.py: a ConversationHandler with    *)
(* the entry point /start, the fallback /cancel and one text handler per   *)
(* state (set_topic, handle_learning, assess_answer,                       *)
(* handle_certification), the module-level session map user_data and the   *)
(* per-user scratch dictionary context.user_data.                          *)
(*                                                                         *)
(* A turn is one action: the whole handler, every call it makes included.  *)
(* The external generator (model.generate_content) is a nondeterministic   *)
(* choice of its result, failure included.  A handler that raises leaves   *)
(* the conversation state as it was (the dispatcher only stores a state    *)
(* that a handler returned) and keeps the mutations made before the raise. *)
(***************************************************************************)
EXTENDS Integers, FiniteSets, Sequences, TLC

VARIABLES
    user_data,      \* user id -> session (CourseModule); a key per created session
    ctx_user_data,  \* user id -> context.user_data, the per-user scratch dict
    conv,           \* user id -> state of that user's conversation
    last,           \* the turn just handled: who, what, reply, generator use
    curriculum      \* the text of one learning path on its way to the user

vars == <<user_data, ctx_user_data, conv, last, curriculum>>

----------------------------------------------------------------------------
(* Bounds of the model. *)

\* The largest number of module headings the generated curriculum may hold.
MaxHeadings == 5

\* The generated texts range over the lengths within LengthSlack of the
\* maximum message length, and a few lengths far from it.
LengthSlack == 20

----------------------------------------------------------------------------
(* Program constants. *)

TOPIC == 0
LEARNING == 1
ASSESSMENT == 2
CERTIFICATION == 3
\* ConversationHandler.END: no conversation is running for the user.
END == -1

\* "We have 5 modules"
NumModules == 5

Users == {1, 2}
\* The users whose turns the specification Spec takes.
ActiveUsers == {1}

Topics == {"python"}

\* Texts the generator may return as a question.
Questions == {"q1", "q2"}

\* Texts the generator may return as an evaluation of an answer.
Evaluations == {"Correct!", "INCORRECT. No."}

----------------------------------------------------------------------------
(* Messages.  A text message is its lowercased text, kept as the part the  *)
(* handlers look at: the command it spells and the number it carries.      *)

Msg(kind, n) == [kind |-> kind, n |-> n]

TextMsgs ==
    {Msg(k, 0) : k \in {"course completed", "http", "retry", "continue",
                        "done", "certify all", "certify", "text"}}
    \cup {Msg("completed module", i) : i \in 0..(NumModules + 1)}
    \cup {Msg("certify N", i) : i \in 1..NumModules}

\* message_text.startswith('http')
StartsWithHttp(m) == m.kind = "http"

\* message.startswith('certify')
StartsWithCertify(m) == m.kind \in {"certify all", "certify", "certify N"}

----------------------------------------------------------------------------
(* Replies.  What a turn sends to the user.                                *)

\* kind: which message; module: the module it names; single: the price quoted
\* for that module alone; modules and price: the modules of a bulk offer and
\* its price; text: generated text shown verbatim.
NoReply ==
    [kind |-> "none", module |-> 0, single |-> 0, modules |-> {}, price |-> 0,
     text |-> ""]

Reply(kind) == [NoReply EXCEPT !.kind = kind]

----------------------------------------------------------------------------
(* context.user_data.  A key that is absent holds 0, "" or FALSE.          *)

EmptyScratch ==
    [video_pending |-> 0, current_module |-> 0, current_question |-> "",
     final_module |-> FALSE, project_assigned |-> FALSE]

----------------------------------------------------------------------------
(* The session.                                                            *)

\* What model.generate_content may do for the curriculum prompt: raise, or
\* return a text with some number of "Module N:" headings, whose video links
\* are the prompt's placeholder or real links.
CurriculumOutcomes ==
    {[ok |-> FALSE, headings |-> 0, placeholder |-> FALSE]}
    \cup [ok : {TRUE}, headings : 0..MaxHeadings, placeholder : BOOLEAN]

\* len(formatted_response) > 4000, len(modules) > 4000, modules[i:i+4000]
MaxMessageLength == 4000
\* formatted_response[:3997]
TruncatedLength == 3997

\* Records stored from the third part of the split on: one record short.
StoredContent_one_short(g) ==
    IF g.ok /\ g.headings + 1 > 1
    THEN [i \in 1..(g.headings - 1) |-> IF g.placeholder THEN "placeholder" ELSE "plain"]
    ELSE << >>

\* CourseModule._generate_modules: the per-module records it stores.
StoredContent(g) ==
    IF g.ok /\ g.headings + 1 > 1
    THEN [i \in 1..g.headings |-> IF g.placeholder THEN "placeholder" ELSE "plain"]
    ELSE << >>

\* CourseModule._generate_modules: the text it returns.
GeneratedModules(g) == IF g.ok THEN "learning path" ELSE "error"

\* A session whose module numbering starts at 0.
CourseModule_zero_based(topic, g) ==
    [topic |-> topic,
     current_module |-> 0,
     completed_modules |-> {},
     module_content |-> StoredContent(g),
     modules |-> GeneratedModules(g)]

CourseModule(topic, g) ==
    [topic |-> topic,
     current_module |-> 1,
     completed_modules |-> {},
     module_content |-> StoredContent(g),
     modules |-> GeneratedModules(g)]

----------------------------------------------------------------------------
(* The text of the learning path.  A text is the sequence of its           *)
(* characters: character i of the text the generator returned, after       *)
(* format_response, is the number i; the characters of the program's       *)
(* string literals are numbers below 1.                                    *)

\* A string literal of n characters.
Literal(n, char) == [i \in 1..n |-> char]

\* text[i:j] for 0 <= i <= j
Slice(text, i, j) == SubSeq(text, i + 1, IF j < Len(text) THEN j ELSE Len(text))

\* "Error generating learning path. Please try again with a different topic."
ErrorText == Literal(72, -1)

\* The topics typed by the user: "python" and a longer one.
TopicTexts == {Literal(6, -2), Literal(40, -2)}

\* The lengths of format_response(response.text).
TextLengths ==
    {0, 1, 2 * MaxMessageLength, 2 * MaxMessageLength + 1}
    \cup ((MaxMessageLength - LengthSlack)..(MaxMessageLength + LengthSlack))

\* What model.generate_content and format_response leave: a text, or an
\* exception.
GeneratorResponses ==
    {[ok |-> FALSE, formatted_response |-> << >>]}
    \cup {[ok |-> TRUE, formatted_response |-> [i \in 1..n |-> i]] : n \in TextLengths}

\* CourseModule._generate_modules: the text it returns, kept as self.modules.
modules_text(response) ==
    IF ~response.ok
    THEN ErrorText
    ELSE IF Len(response.formatted_response) > MaxMessageLength
    THEN Slice(response.formatted_response, 0, TruncatedLength) \o Literal(3, 0)
    ELSE response.formatted_response

\* ceil(a / b)
CeilDiv(a, b) == (a + b - 1) \div b

\* [modules[i:i+4000] for i in range(0, len(modules), 4000)]
chunks(modules) ==
    [k \in 1..CeilDiv(Len(modules), MaxMessageLength) |->
        Slice(modules, (k - 1) * MaxMessageLength, k * MaxMessageLength)]

\* "Great choice! Here's your learning path for {topic}:\n\n{modules}\n\n
\* When you complete a module, type 'completed module X'\n
\* For example: 'completed module 1'"
learning_path_message(topic, modules) ==
    Literal(44, -3) \o topic \o Literal(3, -4) \o modules \o Literal(89, -5)

\* set_topic: the messages it sends for the learning path, in order.
learning_path_replies(topic, modules) ==
    IF Len(modules) > MaxMessageLength
    THEN chunks(modules)
    ELSE <<learning_path_message(topic, modules)>>

\* No learning path on its way.
NoCurriculum ==
    [phase |-> "none", topic |-> << >>,
     response |-> [ok |-> FALSE, formatted_response |-> << >>],
     modules |-> << >>, replies |-> << >>]

----------------------------------------------------------------------------
(* The end of a turn: what the dispatcher and the handler leave behind.    *)

\* The handler returned `to` after sending `reply`; `calls` is the number of
\* calls of the generator it made and `gen` what the last call returned.
Returns(u, m, to, reply, calls, gen) ==
    /\ conv' = [conv EXCEPT ![u] = to]
    /\ last' = [user |-> u, msg |-> m, from |-> conv[u], to |-> to, reply |-> reply,
                calls |-> calls, gen |-> gen, raised |-> "none",
                new_session |-> FALSE]
    /\ UNCHANGED curriculum

\* The handler raised `exc` after `calls` calls of the generator: the
\* conversation keeps its state and nothing is sent.
Raises(u, m, exc, calls) ==
    /\ conv' = conv
    /\ last' = [user |-> u, msg |-> m, from |-> conv[u], to |-> conv[u],
                reply |-> NoReply, calls |-> calls,
                gen |-> IF calls > 0 THEN "raise" ELSE "none", raised |-> exc,
                new_session |-> FALSE]
    /\ UNCHANGED curriculum

\* No turn handled yet.
NoTurn ==
    [user |-> 0, msg |-> Msg("", 0), from |-> END, to |-> END,
     reply |-> NoReply, calls |-> 0, gen |-> "none", raised |-> "none",
     new_session |-> FALSE]

Init ==
    /\ user_data = << >>
    /\ ctx_user_data = [u \in Users |-> EmptyScratch]
    /\ conv = [u \in Users |-> END]
    /\ last = NoTurn
    /\ curriculum = NoCurriculum

----------------------------------------------------------------------------
(* /start and /cancel.                                                     *)

\* entry_points=[CommandHandler('start', start)]: taken when the user has no
\* conversation running.
start(u) ==
    /\ conv[u] = END
    /\ Returns(u, Msg("/start", 0), TOPIC, Reply("welcome"), 0, "none")
    /\ UNCHANGED <<user_data, ctx_user_data>>

\* fallbacks=[CommandHandler('cancel', ...)]: the callback is a plain lambda
\* whose result is ConversationHandler.END, which ends the conversation.
\* Neither user_data nor context.user_data is touched.
cancel(u) ==
    /\ conv[u] # END
    /\ Returns(u, Msg("/cancel", 0), END, NoReply, 0, "none")
    /\ UNCHANGED <<user_data, ctx_user_data>>

----------------------------------------------------------------------------
(* TOPIC: set_topic.                                                       *)

\* A set_topic that keeps the session in one place for all users.
set_topic_one_session(u, topic, g) ==
    /\ conv[u] = TOPIC
    /\ user_data' = [v \in Users |-> CourseModule(topic, g)]
    /\ UNCHANGED <<ctx_user_data, curriculum>>
    /\ conv' = [conv EXCEPT ![u] = LEARNING]
    /\ last' = [user |-> u, msg |-> Msg("topic", 0), from |-> TOPIC, to |-> LEARNING,
                reply |-> [Reply("learning path") EXCEPT !.text = GeneratedModules(g)],
                calls |-> 1, gen |-> IF g.ok THEN "text" ELSE "raise",
                raised |-> "none", new_session |-> TRUE]

set_topic(u, topic, g) ==
    /\ conv[u] = TOPIC
    /\ user_data' = (u :> CourseModule(topic, g)) @@ user_data
    /\ UNCHANGED <<ctx_user_data, curriculum>>
    /\ conv' = [conv EXCEPT ![u] = LEARNING]
    /\ last' = [user |-> u, msg |-> Msg("topic", 0), from |-> TOPIC, to |-> LEARNING,
                reply |-> [Reply("learning path") EXCEPT !.text = GeneratedModules(g)],
                calls |-> 1, gen |-> IF g.ok THEN "text" ELSE "raise",
                raised |-> "none", new_session |-> TRUE]

----------------------------------------------------------------------------
(* Certification requests.                                                 *)

Min(a, b) == IF a < b THEN a ELSE b

SinglePrice == 99
BulkCap == 199
BulkDiscount == 20

\* The discounted price without its cap.
total_cost_uncapped(n) == SinglePrice * n - (n - 1) * BulkDiscount

\* min(199, 99 * n - (n - 1) * 20)
total_cost(n) == Min(BulkCap, SinglePrice * n - (n - 1) * BulkDiscount)

\* A request handler that prices any module asked for.
CertificationRequestReply_unchecked(s, m) ==
    LET completed == s.completed_modules
    IN  IF m.kind = "certify all" /\ completed # {}
        THEN [Reply("certify all") EXCEPT !.modules = completed,
                                          !.price = total_cost(Cardinality(completed))]
        ELSE IF m.kind = "certify N"
        THEN [Reply("certify module") EXCEPT !.module = m.n, !.single = SinglePrice]
        ELSE NoReply

\* A request handler that answers only requests it can grant.
CertificationRequestReply_silent(s, m) ==
    LET completed == s.completed_modules
    IN  IF m.kind = "certify all" /\ completed # {}
        THEN [Reply("certify all") EXCEPT !.modules = completed,
                                          !.price = total_cost(Cardinality(completed))]
        ELSE IF m.kind = "certify N" /\ m.n \in completed
        THEN [Reply("certify module") EXCEPT !.module = m.n, !.single = SinglePrice]
        ELSE NoReply

\* The reply of handle_certification_request; NoReply where it sends nothing.
CertificationRequestReply(s, m) ==
    LET completed == s.completed_modules
        module_count == Cardinality(completed)
    IN  IF m.kind = "certify all"
        THEN IF module_count > 0
             THEN [Reply("certify all") EXCEPT !.modules = completed,
                                               !.price = total_cost(module_count)]
             ELSE NoReply
        ELSE IF m.kind = "certify N"
             THEN IF m.n \in completed
                  THEN [Reply("certify module") EXCEPT !.module = m.n,
                                                       !.single = SinglePrice]
                  ELSE [Reply("not completed") EXCEPT !.module = m.n]
             ELSE NoReply

\* A request handler that leaves the conversation in the caller's state.
handle_certification_request_in_place(u, m) ==
    /\ Returns(u, m, conv[u], CertificationRequestReply(user_data[u], m), 0, "none")
    /\ UNCHANGED <<user_data, ctx_user_data>>

\* Every path of handle_certification_request ends in `return LEARNING`.
handle_certification_request(u, m) ==
    /\ Returns(u, m, LEARNING, CertificationRequestReply(user_data[u], m), 0, "none")
    /\ UNCHANGED <<user_data, ctx_user_data>>

----------------------------------------------------------------------------
(* CERTIFICATION: handle_certification (also called by handle_learning).   *)

handle_certification(u, m) ==
    LET s == user_data[u]
        c == ctx_user_data[u]
    IN  IF m.kind = "continue"
        THEN /\ IF s.current_module <= NumModules
                THEN Returns(u, m, LEARNING,
                             [Reply("continue") EXCEPT !.module = s.current_module],
                             0, "none")
                ELSE Returns(u, m, CERTIFICATION,
                             [Reply("all modules completed")
                                 EXCEPT !.modules = s.completed_modules],
                             0, "none")
             /\ UNCHANGED <<user_data, ctx_user_data>>
        ELSE IF m.kind = "course completed"
        THEN IF Cardinality(s.completed_modules) = NumModules
             THEN \E project \in {"text", "raise"} :
                     IF project = "text"
                     THEN /\ ctx_user_data' =
                                [ctx_user_data EXCEPT ![u].project_assigned = TRUE]
                          /\ Returns(u, m, CERTIFICATION, Reply("project"), 1, "text")
                          /\ UNCHANGED user_data
                     ELSE /\ Returns(u, m, CERTIFICATION, Reply("project failed"),
                                     1, "raise")
                          /\ UNCHANGED <<user_data, ctx_user_data>>
             ELSE /\ Returns(u, m, CERTIFICATION, Reply("course rejected"), 0, "none")
                  /\ UNCHANGED <<user_data, ctx_user_data>>
        ELSE IF m.kind = "done"
        THEN /\ IF c.project_assigned
                THEN Returns(u, m, CERTIFICATION, Reply("submission form"), 0, "none")
                ELSE Returns(u, m, CERTIFICATION, Reply("project first"), 0, "none")
             /\ UNCHANGED <<user_data, ctx_user_data>>
        ELSE IF StartsWithCertify(m)
        THEN handle_certification_request(u, m)
        ELSE /\ Returns(u, m, LEARNING, NoReply, 0, "none")
             /\ UNCHANGED <<user_data, ctx_user_data>>

----------------------------------------------------------------------------
(* LEARNING: handle_learning.                                              *)

\* module_content[module_num].replace('Link: https://youtube.com/...', link)
ReplaceLink(content) == IF content = "placeholder" THEN "user link" ELSE content

\* A check that only refuses modules behind the current one.
out_of_order_behind_only(completed_module, s) == completed_module < s.current_module

\* completed_module != user_data[user_id].current_module
out_of_order(completed_module, s) == completed_module # s.current_module

handle_learning(u, m) ==
    LET s == user_data[u]
        c == ctx_user_data[u]
    IN  IF m.kind = "course completed"
        THEN IF Cardinality(s.completed_modules) = NumModules
             THEN handle_certification(u, m)
             ELSE /\ Returns(u, m, LEARNING, Reply("course rejected"), 0, "none")
                  /\ UNCHANGED <<user_data, ctx_user_data>>
        ELSE IF c.video_pending # 0
        THEN IF StartsWithHttp(m)
             THEN LET module_num == c.video_pending
                  IN  IF module_num \notin DOMAIN s.module_content
                      THEN \* module_content[module_num]: KeyError
                           /\ Raises(u, m, "KeyError", 0)
                           /\ UNCHANGED <<user_data, ctx_user_data>>
                      ELSE /\ user_data' =
                                 [user_data EXCEPT ![u].module_content[module_num] =
                                                       ReplaceLink(@)]
                           /\ \E question \in Questions \cup {"raise"} :
                                 IF question # "raise"
                                 THEN /\ ctx_user_data' =
                                            [ctx_user_data EXCEPT
                                                ![u].video_pending = 0,
                                                ![u].current_module = module_num,
                                                ![u].current_question = question]
                                      /\ Returns(u, m, ASSESSMENT,
                                                 [Reply("question") EXCEPT
                                                     !.module = module_num,
                                                     !.text = question],
                                                 1, question)
                                 ELSE /\ ctx_user_data' =
                                            [ctx_user_data EXCEPT
                                                ![u].video_pending = 0,
                                                ![u].current_module = module_num]
                                      /\ Returns(u, m, LEARNING,
                                                 Reply("question failed"), 1, "raise")
             ELSE /\ Returns(u, m, LEARNING, Reply("link please"), 0, "none")
                  /\ UNCHANGED <<user_data, ctx_user_data>>
        ELSE IF m.kind = "completed module"
        THEN LET completed_module == m.n
             IN  IF 1 <= completed_module /\ completed_module <= NumModules
                 THEN IF out_of_order(completed_module, s)
                      THEN /\ Returns(u, m, LEARNING,
                                      [Reply("in order") EXCEPT
                                          !.module = s.current_module],
                                      0, "none")
                           /\ UNCHANGED <<user_data, ctx_user_data>>
                      ELSE LET final == c.final_module \/ completed_module = NumModules
                           IN  /\ ctx_user_data' =
                                     [ctx_user_data EXCEPT
                                         ![u].final_module = final,
                                         ![u].video_pending = completed_module]
                               /\ Returns(u, m, LEARNING,
                                          [Reply(IF final THEN "share link, final"
                                                          ELSE "share link")
                                              EXCEPT !.module = completed_module],
                                          0, "none")
                               /\ UNCHANGED user_data
                 ELSE /\ Returns(u, m, LEARNING, Reply("invalid module number"),
                                 0, "none")
                      /\ UNCHANGED <<user_data, ctx_user_data>>
        ELSE /\ Returns(u, m, LEARNING, Reply("help"), 0, "none")
             /\ UNCHANGED <<user_data, ctx_user_data>>

----------------------------------------------------------------------------
(* ASSESSMENT: assess_answer.                                              *)

\* evaluation.text.upper()
Upper(text) ==
    CASE text = "Correct!" -> "CORRECT!"
      [] text = "INCORRECT. No." -> "INCORRECT. NO."

\* A verdict read without upper(): evaluation.text.startswith('CORRECT')
is_correct_case_sensitive(text) == text = "CORRECT!"

\* evaluation.text.upper().startswith('CORRECT')
is_correct(text) == Upper(text) = "CORRECT!"

\* Options that list the bulk offer from the first completed module on.
CertificationOptions_bulk_always(current_module, completed) ==
    [Reply("congratulations") EXCEPT
        !.module = current_module,
        !.single = SinglePrice,
        !.modules = completed,
        !.price = total_cost(Cardinality(completed))]

\* The certification options listed after a passing verdict.
CertificationOptions(current_module, completed) ==
    LET completed_count == Cardinality(completed)
    IN  [Reply("congratulations") EXCEPT
            !.module = current_module,
            !.single = SinglePrice,
            !.modules = IF completed_count > 1 THEN completed ELSE {},
            !.price = IF completed_count > 1 THEN total_cost(completed_count) ELSE 0]

\* A pass that records only the module just passed.
mark_completed_overwrite(s, current_module) ==
    [s EXCEPT !.completed_modules = {current_module},
              !.current_module = current_module + 1]

\* completed_modules[current_module] = True; current_module = current_module + 1
mark_completed(s, current_module) ==
    [s EXCEPT !.completed_modules = @ \cup {current_module},
              !.current_module = current_module + 1]

\* A retry that shows the first question of the pool, not the stored one.
retry_text_first_question(c) == "q1"

\* context.user_data['current_question'], as the retry reply shows it
retry_text(c) == c.current_question

assess_answer(u, m) ==
    LET s == user_data[u]
        c == ctx_user_data[u]
        \* context.user_data.get('current_module', 1)
        current_module == IF c.current_module = 0 THEN 1 ELSE c.current_module
    IN  IF m.kind = "retry"
        THEN /\ IF c.current_question = ""
                THEN Raises(u, m, "KeyError", 0)
                ELSE Returns(u, m, ASSESSMENT,
                             [Reply("question again") EXCEPT !.text = retry_text(c)],
                             0, "none")
             /\ UNCHANGED <<user_data, ctx_user_data>>
        ELSE IF StartsWithCertify(m)
        THEN handle_certification_request(u, m)
        ELSE IF c.current_question = ""
        THEN /\ Raises(u, m, "KeyError", 0)
             /\ UNCHANGED <<user_data, ctx_user_data>>
        ELSE \E evaluation \in Evaluations \cup {"raise"} :
                IF evaluation = "raise"
                THEN \* model.generate_content is called outside any try block
                     /\ Raises(u, m, "GenerationError", 1)
                     /\ UNCHANGED <<user_data, ctx_user_data>>
                ELSE IF is_correct(evaluation)
                THEN LET passed == mark_completed(s, current_module)
                     IN  /\ user_data' = [user_data EXCEPT ![u] = passed]
                         /\ Returns(u, m, CERTIFICATION,
                                    CertificationOptions(current_module,
                                                         passed.completed_modules),
                                    1, evaluation)
                         /\ UNCHANGED ctx_user_data
                ELSE /\ Returns(u, m, ASSESSMENT,
                                [Reply("feedback") EXCEPT !.text = evaluation],
                                1, evaluation)
                     /\ UNCHANGED <<user_data, ctx_user_data>>

----------------------------------------------------------------------------
(* The dispatcher: ConversationHandler routes a text message to the        *)
(* handler of the user's conversation state; text outside a conversation   *)
(* and commands other than the two above match no handler.                 *)

Learning(u) == \E m \in TextMsgs : conv[u] = LEARNING /\ handle_learning(u, m)

Assessment(u) == \E m \in TextMsgs : conv[u] = ASSESSMENT /\ assess_answer(u, m)

Certification(u) ==
    \E m \in TextMsgs : conv[u] = CERTIFICATION /\ handle_certification(u, m)

Topic(u) == \E topic \in Topics, g \in CurriculumOutcomes : set_topic(u, topic, g)

Turn(u) ==
    \/ start(u)
    \/ cancel(u)
    \/ Topic(u)
    \/ Learning(u)
    \/ Assessment(u)
    \/ Certification(u)

Next == \E u \in ActiveUsers : Turn(u)

Spec == Init /\ [][Next]_vars

----------------------------------------------------------------------------
(* Two users.  The application handles one update at a time (main builds   *)
(* it without concurrent updates), so the turns of the users interleave    *)
(* turn by turn.  Each user sends the messages of SharedMsgs, enough to    *)
(* pass modules 1 and 2 and to ask for certification, and may cancel and   *)
(* start again.                                                            *)

SharedMsgs ==
    {Msg("completed module", 1), Msg("completed module", 2), Msg("http", 0),
     Msg("text", 0), Msg("continue", 0), Msg("certify all", 0)}

UsersTopic(u) ==
    \E topic \in Topics, g \in CurriculumOutcomes :
        /\ g.ok
        /\ g.headings = NumModules
        /\ ~g.placeholder
        /\ set_topic(u, topic, g)

UsersLearning(u) == \E m \in SharedMsgs : conv[u] = LEARNING /\ handle_learning(u, m)

UsersAssessment(u) == \E m \in SharedMsgs : conv[u] = ASSESSMENT /\ assess_answer(u, m)

UsersCertification(u) ==
    \E m \in SharedMsgs : conv[u] = CERTIFICATION /\ handle_certification(u, m)

UsersTurn(u) ==
    \/ start(u)
    \/ cancel(u)
    \/ UsersTopic(u)
    \/ UsersLearning(u)
    \/ UsersAssessment(u)
    \/ UsersCertification(u)

NextUsers == \E u \in Users : UsersTurn(u)

SpecUsers == Init /\ [][NextUsers]_vars

----------------------------------------------------------------------------
(* One user who works through the course while the generator succeeds: a   *)
(* curriculum of 5 module records, a question for every link, 'CORRECT'    *)
(* for every answer, a project brief.  The user sends 'completed module    *)
(* k', an http link, an answer and 'continue' for k = 1..5, then 'course   *)
(* completed' and 'done'.  Every message is handled by the handler of the  *)
(* specification Spec; the update loop of main handles each message that   *)
(* was sent, hence the weak fairness.                                      *)

\* What the user may type as the answer: plain text, or words that mean
\* something in other states.
AnswerMsgs == {Msg("text", 0), Msg("done", 0), Msg("http", 0)}

HappyStart(u) == conv[u] = END /\ start(u)

HappyTopic(u) ==
    \E topic \in Topics, g \in CurriculumOutcomes :
        /\ g.ok
        /\ g.headings = NumModules
        /\ set_topic(u, topic, g)

HappyClaim(u) ==
    /\ conv[u] = LEARNING
    /\ ctx_user_data[u].video_pending = 0
    /\ handle_learning(u, Msg("completed module", user_data[u].current_module))

HappyLink(u) ==
    /\ conv[u] = LEARNING
    /\ ctx_user_data[u].video_pending # 0
    /\ handle_learning(u, Msg("http", 0))
    /\ last'.gen \in Questions

HappyAnswer(u) ==
    /\ conv[u] = ASSESSMENT
    /\ \E m \in AnswerMsgs : assess_answer(u, m)
    /\ last'.gen \in Evaluations
    /\ is_correct(last'.gen)

HappyContinue(u) ==
    /\ conv[u] = CERTIFICATION
    /\ last.reply.kind = "congratulations"
    /\ handle_certification(u, Msg("continue", 0))

HappyCourseCompleted(u) ==
    /\ conv[u] = CERTIFICATION
    /\ last.reply.kind = "all modules completed"
    /\ handle_certification(u, Msg("course completed", 0))
    /\ last'.gen = "text"

HappyDone(u) ==
    /\ conv[u] = CERTIFICATION
    /\ last.reply.kind = "project"
    /\ handle_certification(u, Msg("done", 0))

HappyTurn(u) ==
    \/ HappyStart(u)
    \/ HappyTopic(u)
    \/ HappyClaim(u)
    \/ HappyLink(u)
    \/ HappyAnswer(u)
    \/ HappyContinue(u)
    \/ HappyCourseCompleted(u)
    \/ HappyDone(u)

NextHappy == \E u \in ActiveUsers : HappyTurn(u)

SpecHappy == Init /\ [][NextHappy]_vars /\ WF_vars(NextHappy)

----------------------------------------------------------------------------
(* The learning path of one set_topic turn, character by character: the    *)
(* generator's text of a length drawn from TextLengths, the text           *)
(* _generate_modules makes of it, the messages set_topic sends.            *)

InitCurriculum ==
    /\ user_data = << >>
    /\ ctx_user_data = [u \in Users |-> EmptyScratch]
    /\ conv = [u \in Users |-> END]
    /\ last = NoTurn
    /\ curriculum \in [phase : {"response"}, topic : TopicTexts,
                       response : GeneratorResponses,
                       modules : {<< >>}, replies : {<< >>}]

\* CourseModule(topic): self.modules = self._generate_modules()
generate_modules ==
    /\ UNCHANGED <<user_data, ctx_user_data, conv, last>>
    /\ curriculum.phase = "response"
    /\ curriculum' = [curriculum EXCEPT !.phase = "modules",
                                        !.modules = modules_text(curriculum.response)]

\* set_topic: the replies after the session is stored.
send_learning_path ==
    /\ UNCHANGED <<user_data, ctx_user_data, conv, last>>
    /\ curriculum.phase = "modules"
    /\ curriculum' = [curriculum EXCEPT
                         !.phase = "sent",
                         !.replies = learning_path_replies(curriculum.topic,
                                                           curriculum.modules)]

NextCurriculum == generate_modules \/ send_learning_path

SpecCurriculum == InitCurriculum /\ [][NextCurriculum]_vars

----------------------------------------------------------------------------
(* Vocabulary of the properties.  In a step, last' describes the turn the  *)
(* step takes: its user, its message and the state it was dispatched in.   *)

Sessions == DOMAIN user_data

NumCompleted(u) == Cardinality(user_data[u].completed_modules)

\* The step is a turn of u, dispatched in state `from`, for a message of `kind`.
TurnOf(u, from, kind) ==
    /\ last'.user = u
    /\ last'.from = from
    /\ last'.msg.kind = kind

\* u has a session before the step and the step does not replace it.
SameSession(u) ==
    /\ u \in Sessions
    /\ ~(last'.user = u /\ last'.new_session)

\* The last turn was a turn of u, dispatched in state `from`, for `kind`.
LastTurn(u, from, kind) ==
    /\ last.user = u
    /\ last.from = from
    /\ last.msg.kind = kind

----------------------------------------------------------------------------
(* C1: a module number N enters a session's completed_modules only in a    *)
(* turn in which N is that session's current_module, and that turn moves   *)
(* current_module to N + 1; no other turn of the session changes           *)
(* current_module.                                                         *)

C1_Step ==
    \A u \in Users :
        SameSession(u) =>
            LET before == user_data[u]
                after == user_data'[u]
            IN  /\ \A N \in after.completed_modules \ before.completed_modules :
                      /\ N = before.current_module
                      /\ after.current_module = N + 1
                /\ after.completed_modules = before.completed_modules
                      => after.current_module = before.current_module

C1_CompletionOnlyOfCurrentModule == [][C1_Step]_vars

----------------------------------------------------------------------------
(* C2: completed_modules of every session is a subset of 1..5, and no turn *)
(* of the same session removes an element from it.                         *)

C2_Range == \A u \in Sessions : user_data[u].completed_modules \subseteq 1..NumModules

C2_Step ==
    \A u \in Users :
        SameSession(u) =>
            user_data[u].completed_modules \subseteq user_data'[u].completed_modules

C2_CompletedModulesGrow == []C2_Range /\ [][C2_Step]_vars

\* A pass in a session that had completed modules already.
C2_Witness ==
    /\ LastTurn(1, ASSESSMENT, "text")
    /\ last.to = CERTIFICATION
    /\ 1 \in Sessions
    /\ NumCompleted(1) = 3

----------------------------------------------------------------------------
(* C3: current_module of every session is in 1..6, and no turn of the same *)
(* session lowers it.                                                      *)

C3_Range == \A u \in Sessions : user_data[u].current_module \in 1..(NumModules + 1)

C3_Step ==
    \A u \in Users :
        SameSession(u) => user_data'[u].current_module >= user_data[u].current_module

C3_CurrentModuleInRangeAndGrows == []C3_Range /\ [][C3_Step]_vars

\* The pass of the last module: current_module reaches 6.
C3_Witness ==
    /\ LastTurn(1, ASSESSMENT, "text")
    /\ last.to = CERTIFICATION
    /\ 1 \in Sessions
    /\ user_data[1].current_module = NumModules + 1

----------------------------------------------------------------------------
(* C4: the project brief and the submission form are sent only when the    *)
(* user's session has exactly 5 completed modules; 'course completed' with *)
(* fewer than 5, in LEARNING or CERTIFICATION, is rejected and changes     *)
(* neither the conversation state nor the session.                         *)

C4_Step ==
    \A u \in Users :
        /\ (last'.user = u /\ last'.reply.kind \in {"project", "submission form"})
              => Cardinality(user_data'[u].completed_modules) = NumModules
        /\ \A from \in {LEARNING, CERTIFICATION} :
              (TurnOf(u, from, "course completed") /\ conv[u] = from
                  /\ NumCompleted(u) < NumModules)
              => /\ last'.reply.kind = "course rejected"
                 /\ conv'[u] = conv[u]
                 /\ user_data'[u] = user_data[u]

C4_CourseCompletionNeedsAllModules == [][C4_Step]_vars

----------------------------------------------------------------------------
(* C5: in LEARNING, 'completed module N' with N in 1..5 other than the     *)
(* session's current_module is rejected: current_module, completed_modules *)
(* and the pending link are unchanged and the conversation stays in        *)
(* LEARNING.                                                               *)

C5_Step ==
    \A u \in Users :
        (/\ TurnOf(u, LEARNING, "completed module")
         /\ conv[u] = LEARNING
         /\ last'.msg.n \in 1..NumModules
         /\ last'.msg.n # user_data[u].current_module)
        => /\ user_data'[u] = user_data[u]
           /\ ctx_user_data'[u].video_pending = ctx_user_data[u].video_pending
           /\ conv'[u] = LEARNING
           /\ last'.raised = "none"
           /\ IF ctx_user_data[u].video_pending = 0
              THEN /\ last'.reply.kind = "in order"
                   /\ last'.reply.module = user_data[u].current_module
              ELSE last'.reply.kind = "link please"

C5_OutOfOrderCompletionRejected == [][C5_Step]_vars

\* Modules 1, 2, 3 completed in order, then 'completed module 5' refused.
C5_Witness ==
    /\ LastTurn(1, LEARNING, "completed module")
    /\ last.msg.n = 5
    /\ last.reply.kind = "in order"
    /\ last.reply.module = 4
    /\ user_data[1].completed_modules = {1, 2, 3}
    /\ user_data[1].current_module = 4
    /\ ctx_user_data[1].video_pending = 0
    /\ conv[1] = LEARNING

----------------------------------------------------------------------------
(* C6: 'certify X' for a module X outside completed_modules, sent in       *)
(* ASSESSMENT or CERTIFICATION, is reported to the user and changes        *)
(* nothing: the conversation state and the session stay as they were.      *)

\* The step is a turn of u for 'certify X', X not completed, sent in `from`.
CertifyNotCompleted(u, from) ==
    /\ TurnOf(u, from, "certify N")
    /\ conv[u] = from
    /\ last'.msg.n \notin user_data[u].completed_modules

C6_StepOriginal ==
    \A u \in Users : \A from \in {ASSESSMENT, CERTIFICATION} :
        CertifyNotCompleted(u, from)
        => /\ last'.reply.kind = "not completed"
           /\ last'.reply.module = last'.msg.n
           /\ conv'[u] = conv[u]
           /\ user_data'[u] = user_data[u]

C6_CertifyNotCompletedChangesNothing == [][C6_StepOriginal]_vars

(* C6, amended: such a request is reported to the user and leaves the      *)
(* session unchanged, and the conversation moves to LEARNING.              *)

C6_StepAmended ==
    \A u \in Users : \A from \in {ASSESSMENT, CERTIFICATION} :
        CertifyNotCompleted(u, from)
        => /\ last'.reply.kind = "not completed"
           /\ last'.reply.module = last'.msg.n
           /\ conv'[u] = LEARNING
           /\ user_data'[u] = user_data[u]

C6_CertifyNotCompletedReportedToLearning == [][C6_StepAmended]_vars

\* 'certify 3' refused in ASSESSMENT with modules 1 and 2 completed.
C6_Witness ==
    /\ LastTurn(1, ASSESSMENT, "certify N")
    /\ last.msg.n = 3
    /\ last.reply.kind = "not completed"
    /\ user_data[1].completed_modules = {1, 2}
    /\ conv[1] = LEARNING

----------------------------------------------------------------------------
(* C7: in LEARNING, ASSESSMENT and CERTIFICATION, a message that matches   *)
(* none of the state's commands gets a help reply and the conversation     *)
(* stays in the state.                                                     *)

\* The message kinds a state's handler has no branch for.  In LEARNING the
\* pending link decides; in ASSESSMENT every text is an answer.
Unrecognized(from, kind, video_pending) ==
    CASE from = LEARNING ->
            /\ kind # "course completed"
            /\ IF video_pending # 0 THEN kind # "http" ELSE kind # "completed module"
      [] from = CERTIFICATION ->
            kind \notin {"continue", "course completed", "done",
                         "certify all", "certify N", "certify"}
      [] OTHER -> FALSE

C7_Step ==
    \A u \in Users : \A from \in {LEARNING, ASSESSMENT, CERTIFICATION} :
        (/\ last'.user = u
         /\ last'.msg \in TextMsgs
         /\ last'.from = from
         /\ conv[u] = from
         /\ Unrecognized(from, last'.msg.kind, ctx_user_data[u].video_pending))
        => /\ last'.reply.kind \in {"help", "link please"}
           /\ conv'[u] = from

C7_UnrecognizedInputKeepsState == [][C7_Step]_vars

----------------------------------------------------------------------------
(* C8: when a call of the generator fails (curriculum in TOPIC, question   *)
(* in LEARNING, evaluation in ASSESSMENT, project brief on 'course         *)
(* completed'), a fallback message is sent and the conversation state      *)
(* after the turn is the state before it.                                  *)

FallbackReplies == {"learning path", "question failed", "project failed"}

C8_Step ==
    \A u \in Users :
        (last'.user = u /\ last'.calls > 0 /\ last'.gen = "raise")
        => /\ last'.reply.kind \in FallbackReplies
           /\ conv'[u] = conv[u]

C8_GenerationFailureKeepsState == [][C8_Step]_vars

----------------------------------------------------------------------------
(* C9: no text message makes its turn raise; a link sent while a link is   *)
(* pending for module N is handled also when module N has no stored        *)
(* content.                                                                *)

C9_NoMessageRaises == last.raised # "KeyError"

----------------------------------------------------------------------------
(* C10: in ASSESSMENT, 'retry' sends the stored question text again, calls *)
(* the generator not at all, leaves the session and the stored question    *)
(* unchanged and keeps the conversation in ASSESSMENT.                     *)

C10_Step ==
    \A u \in Users :
        (TurnOf(u, ASSESSMENT, "retry") /\ conv[u] = ASSESSMENT)
        => /\ last'.reply.kind = "question again"
           /\ last'.reply.text = ctx_user_data[u].current_question
           /\ last'.reply.text \in Questions
           /\ last'.calls = 0
           /\ last'.raised = "none"
           /\ user_data'[u] = user_data[u]
           /\ ctx_user_data'[u] = ctx_user_data[u]
           /\ conv'[u] = ASSESSMENT

C10_RetryResendsStoredQuestion == [][C10_Step]_vars

\* 'retry' after a failed answer, with the second question of the pool stored.
C10_Witness ==
    /\ LastTurn(1, ASSESSMENT, "retry")
    /\ last.reply.kind = "question again"
    /\ last.reply.text = "q2"
    /\ ctx_user_data[1].current_question = "q2"
    /\ conv[1] = ASSESSMENT

----------------------------------------------------------------------------
(* C11: a priced certification reply names a module X (the reply to        *)
(* 'certify X', the module list of the reply to 'certify all', the options *)
(* after a passing verdict) only if X is in the session's                  *)
(* completed_modules at that time.                                         *)

PricedReplies == {"certify module", "certify all", "congratulations"}

\* The modules a reply names.
NamedModules(reply) ==
    (IF reply.module = 0 THEN {} ELSE {reply.module}) \cup reply.modules

C11_PricedReplyNamesCompletedModules ==
    \A u \in Sessions :
        (last.user = u /\ last.reply.kind \in PricedReplies)
        => /\ NamedModules(last.reply) # {}
           /\ NamedModules(last.reply) \subseteq user_data[u].completed_modules

\* 'certify 2' granted with modules 1, 2, 3 completed.
C11_Witness ==
    /\ last.user = 1
    /\ last.msg = Msg("certify N", 2)
    /\ last.reply.kind = "certify module"
    /\ last.reply.module = 2
    /\ 1 \in Sessions
    /\ user_data[1].completed_modules = {1, 2, 3}

----------------------------------------------------------------------------
(* C12: for every count n in 1..5 of completed modules the bulk price      *)
(* shown, in the options after a passing verdict and in the reply to       *)
(* 'certify all', is min(199, 99 * n - 20 * (n - 1)): 99 for n = 1, 199    *)
(* for n = 3, never above 199, with a per-module average price(n) / n that *)
(* does not grow with n.                                                   *)

C12_Price(n) == IF 99 * n - 20 * (n - 1) < 199 THEN 99 * n - 20 * (n - 1) ELSE 199

\* The last reply shows a bulk price.
ShowsBulkPrice ==
    \/ last.reply.kind = "certify all"
    \/ last.reply.kind = "congratulations" /\ last.reply.modules # {}

C12_BulkPrice ==
    ShowsBulkPrice =>
        LET n == Cardinality(last.reply.modules)
            price == last.reply.price
        IN  /\ n \in 1..NumModules
            /\ price = C12_Price(n)
            /\ price <= 199
            /\ n = 1 => price = 99
            /\ n = 3 => price = 199
            \* price(n) / n <= price(k) / k for every smaller count k
            /\ \A k \in 1..n : price * k <= total_cost(k) * n

\* The bulk price of three completed modules, in the options after the pass.
C12_Witness ==
    /\ last.reply.kind = "congratulations"
    /\ Cardinality(last.reply.modules) = 3
    /\ last.reply.price = 199

----------------------------------------------------------------------------
(* C13: the certification offers after a passing verdict always include    *)
(* the single-module certification at 99, and include a bulk offer for all *)
(* completed modules iff more than one module is completed; after exactly  *)
(* one completed module only the single-module offer is made.              *)

----------------------------------------------------------------------------
(* C14: the scratch fields (pending link request, question text, scratch   *)
(* current module, final-module flag, project-assigned flag) are cleared   *)
(* by the turn that consumes them, and a session created by a new topic    *)
(* starts with none of them set, so that whatever a later turn reads from  *)
(* them, the project-assigned flag read by 'done' included, was set in     *)
(* that session.                                                           *)

C14_Step ==
    \A u \in Users :
        \* the link turn consumes the pending link request
        /\ (TurnOf(u, LEARNING, "http") /\ conv'[u] = ASSESSMENT)
           => ctx_user_data'[u].video_pending = 0
        \* a new session carries nothing over
        /\ (last'.user = u /\ last'.new_session)
           => ctx_user_data'[u] = EmptyScratch

C14_ScratchScopedToSession == [][C14_Step]_vars
----------------------------------------------------------------------------
(* C15: every message set_topic sends for the learning path is at most     *)
(* 4000 characters long, whatever the length of the generated text.        *)

C15_RepliesWithinMaximum ==
    curriculum.phase = "sent"
    => \A k \in DOMAIN curriculum.replies : Len(curriculum.replies[k]) <= 4000

----------------------------------------------------------------------------
(* C16: a learning path text longer than the maximum length is sent as     *)
(* chunks of at most 4000 characters each whose concatenation, in order,   *)
(* is the text.                                                            *)

RECURSIVE Concatenation(_)
Concatenation(messages) ==
    IF messages = << >>
    THEN << >>
    ELSE Head(messages) \o Concatenation(Tail(messages))

C16_ChunksConcatenateToText ==
    (/\ curriculum.phase = "sent"
     /\ curriculum.response.ok
     /\ Len(curriculum.response.formatted_response) > 4000)
    => /\ \A k \in DOMAIN curriculum.replies : Len(curriculum.replies[k]) <= 4000
       /\ Concatenation(curriculum.replies) = curriculum.response.formatted_response
----------------------------------------------------------------------------
(* C17: in ASSESSMENT an answer (any text but 'retry' and texts starting   *)
(* with 'certify') leads to CERTIFICATION iff the evaluator's reply starts *)
(* with 'CORRECT' in any letter case, and then exactly the assessed module *)
(* is added to completed_modules; otherwise the conversation stays in      *)
(* ASSESSMENT and current_module, completed_modules and the stored         *)
(* question are unchanged.                                                 *)

\* The step handles an answer of u to the question asked.
Answers(u) ==
    /\ last'.user = u
    /\ last'.from = ASSESSMENT
    /\ last'.msg \in TextMsgs
    /\ last'.msg.kind # "retry"
    /\ ~StartsWithCertify(last'.msg)

\* The evaluator replied, and its reply starts with 'CORRECT' in any case.
JudgedCorrect == last'.gen \in {"Correct!"}

C17_Step ==
    \A u \in Users :
        Answers(u) =>
            LET assessed == ctx_user_data[u].current_module
                before == user_data[u].completed_modules
                after == user_data'[u].completed_modules
            IN  /\ u \in Sessions
                /\ conv'[u] = CERTIFICATION <=> JudgedCorrect
                /\ IF JudgedCorrect
                   THEN /\ after \ before = {assessed}
                        /\ before \subseteq after
                   ELSE /\ conv'[u] = ASSESSMENT
                        /\ user_data'[u] = user_data[u]
                        /\ ctx_user_data'[u].current_question
                               = ctx_user_data[u].current_question

C17_VerdictDecidesAssessment == [][C17_Step]_vars

\* Module 2 passed on a reply 'Correct!', which is not upper case.
C17_Witness ==
    /\ last.user = 1
    /\ last.from = ASSESSMENT
    /\ last.msg = Msg("text", 0)
    /\ last.gen = "Correct!"
    /\ conv[1] = CERTIFICATION
    /\ 1 \in Sessions
    /\ user_data[1].completed_modules = {1, 2}
    /\ ctx_user_data[1].current_module = 2
----------------------------------------------------------------------------
(* C18: in ASSESSMENT every message starting with 'certify' moves the      *)
(* conversation to LEARNING without an evaluation: completed_modules and   *)
(* current_module are unchanged, and the user can then claim 'completed    *)
(* module N' again for the same current module.                            *)

C18_Step ==
    \A u \in Users :
        /\ (/\ last'.user = u
            /\ last'.from = ASSESSMENT
            /\ last'.msg \in TextMsgs
            /\ StartsWithCertify(last'.msg))
           => /\ u \in Sessions
              /\ conv'[u] = LEARNING
              /\ last'.calls = 0
              /\ user_data'[u] = user_data[u]
              \* nothing stands in the way of a new claim for current_module
              /\ ctx_user_data'[u].video_pending = 0
              /\ user_data'[u].current_module \in 1..NumModules
        \* and such a claim is accepted
        /\ (/\ TurnOf(u, LEARNING, "completed module")
            /\ u \in Sessions
            /\ ctx_user_data[u].video_pending = 0
            /\ last'.msg.n \in 1..NumModules
            /\ last'.msg.n = user_data[u].current_module)
           => /\ last'.reply.kind \in {"share link", "share link, final"}
              /\ ctx_user_data'[u].video_pending = last'.msg.n
              /\ user_data'[u] = user_data[u]

C18_CertifyLeavesAssessment == [][C18_Step]_vars

\* 'certify 1' typed instead of the answer for module 2.
C18_Witness ==
    /\ LastTurn(1, ASSESSMENT, "certify N")
    /\ last.msg.n = 1
    /\ conv[1] = LEARNING
    /\ 1 \in Sessions
    /\ user_data[1].current_module = 2
    /\ user_data[1].completed_modules = {1}
    /\ ctx_user_data[1].video_pending = 0
    /\ ctx_user_data[1].current_module = 2
----------------------------------------------------------------------------
(* C19: in CERTIFICATION 'continue' moves the conversation to LEARNING     *)
(* when modules remain, and keeps it in CERTIFICATION with the 'completed  *)
(* all modules' options only if all 5 modules are in completed_modules;    *)
(* over every sequence of turns, /cancel and /start included.              *)

C19_ContinueOffersCourseCompletionOnlyWithAllModules ==
    \A u \in Sessions :
        LastTurn(u, CERTIFICATION, "continue")
        => IF user_data[u].completed_modules = 1..NumModules
           THEN /\ conv[u] = CERTIFICATION
                /\ last.reply.kind = "all modules completed"
           ELSE /\ conv[u] = LEARNING
                /\ last.reply.kind = "continue"
----------------------------------------------------------------------------
(* C20: from TOPIC, if the generator always succeeds, the curriculum       *)
(* parses into 5 module records and every evaluation is CORRECT, a user    *)
(* who sends 'completed module k', an http link, an answer and 'continue'  *)
(* for k = 1..5 eventually has all 5 modules completed; from there 'course *)
(* completed' issues the project brief and 'done' then emits the           *)
(* submission form.                                                        *)

AllModulesCompleted(u) ==
    /\ u \in Sessions
    /\ user_data[u].completed_modules = 1..NumModules

ProjectBriefIssued(u) ==
    /\ AllModulesCompleted(u)
    /\ LastTurn(u, CERTIFICATION, "course completed")
    /\ last.reply.kind = "project"

SubmissionFormEmitted(u) ==
    /\ AllModulesCompleted(u)
    /\ LastTurn(u, CERTIFICATION, "done")
    /\ last.reply.kind = "submission form"

C20_CourseIsCompleted ==
    \A u \in ActiveUsers :
        [](conv[u] = TOPIC
             => <>(/\ AllModulesCompleted(u)
                   /\ <>(ProjectBriefIssued(u) /\ <>SubmissionFormEmitted(u))))

C20_Witness == SubmissionFormEmitted(1)
----------------------------------------------------------------------------
(* C21: a turn handled for user A leaves every other user B as it was:     *)
(* B's session (topic, current_module, completed_modules, module content), *)
(* B's scratch fields and B's conversation state; so B's turns find the    *)
(* state B's own turns left, however the turns of A are interleaved.       *)

C21_Step ==
    \A a \in Users, b \in Users :
        (last'.user = a /\ b # a)
        => /\ (b \in DOMAIN user_data') <=> (b \in DOMAIN user_data)
           /\ b \in DOMAIN user_data => user_data'[b] = user_data[b]
           /\ ctx_user_data'[b] = ctx_user_data[b]
           /\ conv'[b] = conv[b]

C21_TurnsOfUsersIndependent == [][C21_Step]_vars

\* User 2 creates a session while user 1 is in CERTIFICATION with module 1
\* completed and scratch of its own.
C21_Witness ==
    /\ last.user = 2
    /\ last.new_session
    /\ 1 \in Sessions
    /\ conv[1] = CERTIFICATION
    /\ user_data[1].completed_modules = {1}
    /\ ctx_user_data[1].current_question # ""
    /\ user_data[2].completed_modules = {}
----------------------------------------------------------------------------
(* C22: in every reachable state of every session completed_modules is     *)
(* exactly {1, ..., current_module - 1}: no gaps, nothing at or above      *)
(* current_module; over every sequence of messages, /cancel followed by    *)
(* /start and a new topic included.                                        *)

C22_CompletedIsPrefixBelowCurrentModule ==
    \A u \in Sessions :
        user_data[u].completed_modules = 1..(user_data[u].current_module - 1)

----------------------------------------------------------------------------
(* C23: whenever the conversation is in ASSESSMENT a question text is      *)
(* stored in the scratch data and the scratch current module is the        *)
(* session's current_module; whenever it is in CERTIFICATION the session's *)
(* completed_modules is not empty.                                         *)

C23_QuestionStored ==
    \A u \in Users :
        conv[u] = ASSESSMENT
        => /\ u \in Sessions
           /\ ctx_user_data[u].current_question \in Questions

C23_CertificationHasCompletedModule ==
    \A u \in Users :
        conv[u] = CERTIFICATION
        => /\ u \in Sessions
           /\ user_data[u].completed_modules # {}

C23_ScratchModuleIsCurrentModule ==
    \A u \in Users :
        conv[u] = ASSESSMENT
        => /\ u \in Sessions
           /\ ctx_user_data[u].current_module = user_data[u].current_module

C23_AssessmentAndCertificationInvariants ==
    /\ C23_QuestionStored
    /\ C23_ScratchModuleIsCurrentModule
    /\ C23_CertificationHasCompletedModule

====
